---- MODULE Spec2Model ----
(***************************************************************************)
(* Session driver of the shell (crates/shell/src/main.rs): main,           *)
(* init_state, get_script_content and the interactive read-eval loop.      *)
(* The Interpreter (execute), the parse-only path (debug_parse) and the    *)
(* line editor are collaborators; their results are nondeterministic.      *)
(***************************************************************************)
EXTENDS Integers, Sequences, FiniteSets, TLC

VARIABLES
    options,      \* Options::parse(): file, command, interact, norc, debug
    sys,          \* the process environment: home dir, rc file, inherited env
    pc,           \* position of the (single) driver thread
    state,        \* the ShellState in use: env_vars, last_command_exit_code,
                  \* cancelled (its CancellationToken)
    sessions,     \* number of ShellState::new calls so far
    script,       \* (script_text, filename) resolved by get_script_content
    exit_code,    \* main's exit_code local (result of the script execute)
    prev_exit_code, \* the prev_exit_code local of init_state and of the loop
    readline,     \* the loop's readline local: the line editor's outcome
    rlHistory,    \* the editor's in-memory history
    histFile,     \* ~/.shell_history on disk
    histWrites,   \* number of rl.save_history calls
    submitted,    \* lines the editor returned as Ok(line), in order
    execCalls,    \* every execute call made: kind, text, filename
    debugCalls,   \* every debug_parse call made: its text
    head,         \* .git/HEAD of the repository on disk, as commands leave it
    rendered,     \* git_branch and display_cwd of the last prompt built
    result        \* how the process ended

vars == << options, sys, pc, state, sessions, script, exit_code,
           prev_exit_code, readline,
           rlHistory, histFile, histWrites, submitted, execCalls, debugCalls,
           head, rendered, result >>

----------------------------------------------------------------------------
(* Bounds *)

\* lines submitted in one interactive session
MaxLines == 2
\* entries of a history file that exists at entry
MaxInitialHistory == 1

\* exit codes the Interpreter returns: success and one failure
ExitCodes == { 0, 1 }

----------------------------------------------------------------------------
(* Values *)

None == << >>
Some(x) == << x >>

\* Lines are sequences of characters.
Whitespace == { " ", "\t" }

L_exit == << "e", "x", "i", "t" >>
L_pad_ExIT == << " ", "E", "x", "I", "T", "\t" >>
L_exits == << "e", "x", "i", "t", "s" >>
L_ls == << "l", "s" >>
L_sp_ls == << " ", "l", "s" >>
L_empty == << >>

InputLines == { L_exit, L_pad_ExIT, L_exits, L_ls, L_sp_ls, L_empty }

\* Script paths: one readable, one that cannot be read, one readable whose
\* name is not valid UTF-8 (shown here with the offending byte as \x80).
P_ok == "a.sh"
P_missing == "missing.sh"
P_nonutf8 == "b\\x80.sh"
Paths == { P_ok, P_missing, P_nonutf8 }

Readable(path) == path # P_missing
FileContent(path) == << "content of", path >>

\* -c <command>: the one-shot command string
Commands == { Some(<< "echo", " ", "hi" >>) }

InheritedEnvs == { << >>, "PS1" :> "custom> " }

\* Paths and git refs are sequences of characters.
\* dirs::home_dir(), and working directories: home itself, a directory under
\* it, one under it behind a backslash separator, a sibling of home whose
\* name continues home's name, and a directory elsewhere.
Home == << "/", "h" >>
D_home == Home
D_proj == Home \o << "/", "p" >>
D_bslash == Home \o << "\\", "p" >>
D_sibling == Home \o << "2" >>
D_tmp == << "/", "t" >>
Dirs == { D_home, D_proj, D_bslash, D_sibling, D_tmp }

\* the directories that hold a git repository
Repositories == { D_proj }

\* "ref: refs/heads/"
RefPrefix ==
    << "r", "e", "f", ":", " ", "r", "e", "f", "s", "/",
       "h", "e", "a", "d", "s", "/" >>
HexDigits ==
    << "0", "1", "2", "3", "4", "5", "6", "7", "8", "9",
       "a", "b", "c", "d", "e", "f" >>

\* Contents of .git/HEAD: a branch, a detached commit (40 hexadecimal
\* digits), a symbolic ref outside refs/heads/, and strings of 7 and of 8
\* characters.
Ref_main == RefPrefix \o << "m", "a", "i", "n" >>
Ref_hash == [ i \in 1..40 |-> HexDigits[((i * 7) % 16) + 1] ]
Ref_tag ==
    << "r", "e", "f", ":", " ", "r", "e", "f", "s", "/",
       "t", "a", "g", "s", "/", "v" >>
Ref_seven == << "a", "b", "c", "d", "e", "f", "0" >>
Ref_eight == << "a", "b", "c", "d", "e", "f", "0", "1" >>
Refs == { Ref_main, Ref_hash, Ref_tag, Ref_seven, Ref_eight }

\* .shell_history as an earlier session left it; a missing file is N = 0
HistoryBase == << L_ls, L_exits, L_ls >>
InitialHistories ==
    { SubSeq(HistoryBase, 1, n) : n \in 1..MaxInitialHistory }

----------------------------------------------------------------------------
(* Pure functions of the driver *)

UpperCase == << "A", "B", "C", "D", "E", "F", "G", "H", "I", "J", "K", "L", "M",
                "N", "O", "P", "Q", "R", "S", "T", "U", "V", "W", "X", "Y", "Z" >>
LowerCase == << "a", "b", "c", "d", "e", "f", "g", "h", "i", "j", "k", "l", "m",
                "n", "o", "p", "q", "r", "s", "t", "u", "v", "w", "x", "y", "z" >>

\* u8::to_ascii_lowercase: only A-Z are mapped
to_ascii_lowercase(c) ==
    IF \E i \in 1..Len(UpperCase) : UpperCase[i] = c
    THEN LowerCase[CHOOSE i \in 1..Len(UpperCase) : UpperCase[i] = c]
    ELSE c

\* str::eq_ignore_ascii_case
eq_ignore_ascii_case(a, b) ==
    /\ Len(a) = Len(b)
    /\ \A i \in 1..Len(a) : to_ascii_lowercase(a[i]) = to_ascii_lowercase(b[i])

RECURSIVE trim_start(_)
trim_start(s) ==
    IF s # << >> /\ Head(s) \in Whitespace THEN trim_start(Tail(s)) ELSE s

RECURSIVE trim_end(_)
trim_end(s) ==
    IF s # << >> /\ s[Len(s)] \in Whitespace
    THEN trim_end(SubSeq(s, 1, Len(s) - 1))
    ELSE s

\* str::trim
trim(s) == trim_end(trim_start(s))

\* line.trim().eq_ignore_ascii_case("exit")
IsExitCommand(line) == eq_ignore_ascii_case(trim(line), << "e", "x", "i", "t" >>)

\* HashMap::insert
HashMapInsert(m, k, v) ==
    [ x \in (DOMAIN m) \cup { k } |-> IF x = k THEN v ELSE m[x] ]

default_ps1 == "{display_cwd}{git_branch}$ "

\* init_state: env_vars = std::env::vars().collect(), then insert of PS1
InitialEnvVars(inherited) == HashMapInsert(inherited, "PS1", default_ps1)

\* ShellState::new(env_vars, &cwd, commands)
NewShellState(inherited) ==
    [ env_vars |-> InitialEnvVars(inherited), last_command_exit_code |-> 0,
      cancelled |-> FALSE, cwd |-> sys.cwd, last_command_cd |-> FALSE,
      git_repository |-> FALSE, git_branch |-> << >> ]

\* variant: the exit code is not stored in the Session
set_last_command_exit_code_Dropped(s, code) == s

\* state.set_last_command_exit_code(code)
set_last_command_exit_code(s, code) ==
    [ s EXCEPT !.last_command_exit_code = code ]

\* variant: the token is left as the last execute call left it
reset_cancellation_token_Kept(s) == s

\* state.reset_cancellation_token()
reset_cancellation_token(s) == [ s EXCEPT !.cancelled = FALSE ]

\* Path::display(): bytes that are not UTF-8 are shown as U+FFFD
PathDisplay(path) == IF path = P_nonutf8 THEN "b\\uFFFD.sh" ELSE path

RcPath == "~/.shellrc"
\* format!("source '{}'", shellrc_file.to_string_lossy())
RcSourceLine == << "source '", RcPath, "'" >>

\* variant: the inline command is matched before the file
get_script_content_CommandFirst(file, command) ==
    IF command # None
    THEN [ ok |-> TRUE, text |-> command[1], filename |-> None ]
    ELSE IF Readable(file[1])
         THEN [ ok |-> TRUE, text |-> FileContent(file[1]),
                filename |-> Some(PathDisplay(file[1])) ]
         ELSE [ ok |-> FALSE, text |-> << >>, filename |-> None ]

\* get_script_content(file, command)
get_script_content(file, command) ==
    IF file # None
    THEN IF Readable(file[1])
         THEN [ ok |-> TRUE, text |-> FileContent(file[1]),
                filename |-> Some(PathDisplay(file[1])) ]
         ELSE [ ok |-> FALSE, text |-> << >>, filename |-> None ]
    ELSE [ ok |-> TRUE, text |-> command[1], filename |-> None ]

\* Config::builder().history_ignore_space(true)....build(): the builder's
\* defaults with history_ignore_space switched on
EditorConfig == [ history_ignore_space |-> TRUE, history_ignore_dups |-> TRUE ]

\* whether the editor's history refuses a line under EditorConfig
HistoryIgnores(h, line) ==
    \/ line = << >>
    \/ EditorConfig.history_ignore_space /\ Head(line) \in Whitespace
    \/ EditorConfig.history_ignore_dups /\ h # << >> /\ h[Len(h)] = line

\* variant: every line is recorded (history_ignore_space left off, no
\* duplicate or empty-line check)
add_history_entry_KeepsAll(h, line) == Append(h, line)

\* rl.add_history_entry(line)
add_history_entry(h, line) == IF HistoryIgnores(h, line) THEN h ELSE Append(h, line)

RECURSIVE AddAll(_, _)
AddAll(h, lines) ==
    IF lines = << >> THEN h
    ELSE AddAll(add_history_entry(h, Head(lines)), Tail(lines))

\* rl.load_history(path): the file's entries are added one by one
load_history(entries) == AddAll(<< >>, entries)

\* The working directory after one execute call: a directory change moves
\* the Session to one of the directories the commands of the run name and
\* marks the last command as a directory change; any other command clears
\* the mark.
ExecuteCd(s) ==
    { [ s EXCEPT !.last_command_cd = FALSE ] }
      \cup { [ s EXCEPT !.cwd = d, !.last_command_cd = TRUE ] : d \in sys.dirs }

\* The Session as one execute call may leave it: the Interpreter may change
\* the environment (here: PS1, to a value the commands of the run export)
\* and the working directory of the state it borrows, and an interrupt
\* signal that arrives during the call cancels the state's token.
ExecuteEffects(s) ==
    { [ t EXCEPT !.cancelled = c ] :
        t \in UNION { { u } \cup { [ u EXCEPT !.env_vars =
                                        HashMapInsert(u.env_vars, "PS1", v) ] :
                                    v \in sys.exports } :
                        u \in ExecuteCd(s) },
        c \in { s.cancelled, TRUE } }

\* execute(text, filename, &mut state): Ok(exit code) or Err, state mutated;
\* the commands may have checked out another ref in the repository (h is
\* .git/HEAD as the call finds it)
ExecuteResults(s, h) ==
    { [ ok |-> o, code |-> c, state |-> t, head |-> g ] :
        o \in BOOLEAN, c \in ExitCodes, t \in ExecuteEffects(s),
        g \in { h } \cup sys.checkouts }

\* one execute call: its arguments, with the state's token as the call finds it
ExecCall(kind, text, filename, st) ==
    [ kind |-> kind, text |-> text, filename |-> filename,
      cancelled |-> st.cancelled ]

Running == [ kind |-> "running", status |-> 0, context |-> "" ]
\* main returns Err(report): the report carries the outermost context
Failed(context) == [ kind |-> "error", status |-> 1, context |-> context ]
\* .expect(..) on an Err: the process panics
Panicked(context) == [ kind |-> "panic", status |-> 101, context |-> context ]
\* main returns Ok(())
Returned == [ kind |-> "ok", status |-> 0, context |-> "" ]
\* std::process::exit(code)
Exited(code) == [ kind |-> "exit", status |-> code, context |-> "" ]

NoReadline == [ kind |-> "none", line |-> << >> ]

----------------------------------------------------------------------------
(* Initial state: the process has parsed its options, nothing has run *)

OptionsSet ==
    [ file : { None } \cup { Some(p) : p \in Paths },
      command : { None } \cup Commands,
      interact : BOOLEAN, norc : BOOLEAN, debug : BOOLEAN ]

HistoryFiles ==
    { [ exists |-> FALSE, entries |-> << >> ] }
      \cup { [ exists |-> TRUE, entries |-> h ] : h \in InitialHistories }

\* The runs of Spec: every option and every home directory, started in the
\* repository, with lines and commands that neither change the directory
\* nor check out another ref.
SysSet ==
    [ home : { "none", "nonutf8", "utf8" },
      rcExists : BOOLEAN,
      env : InheritedEnvs,
      histAtEntry : HistoryFiles,
      cwd : { D_proj },
      lines : { InputLines },
      exports : { { "> " } },
      dirs : { { } },
      checkouts : { { } } ]

\* The runs of PromptSpec: interactive sessions started in any directory,
\* whose commands go into and out of the repository and check out a commit,
\* and sessions started in the repository whose commands check out any ref.
PromptOptionsSet ==
    [ file : { None }, command : { None } \cup Commands,
      interact : { TRUE }, norc : { FALSE }, debug : { FALSE } ]

PromptSysSet ==
    [ home : { "utf8" },
      rcExists : { TRUE },
      env : { << >> },
      histAtEntry : { [ exists |-> FALSE, entries |-> << >> ] },
      cwd : Dirs,
      lines : { { L_ls, L_exit } },
      exports : { { } },
      dirs : { { D_proj, D_tmp } },
      checkouts : { { Ref_hash } } ]
      \cup
    [ home : { "utf8" },
      rcExists : { TRUE },
      env : { << >> },
      histAtEntry : { [ exists |-> FALSE, entries |-> << >> ] },
      cwd : { D_proj },
      lines : { { L_ls, L_exit } },
      exports : { { } },
      dirs : { { } },
      checkouts : { Refs } ]

NoPrompt == [ git_branch |-> << >>, display_cwd |-> << >> ]

NoState ==
    [ env_vars |-> << >>, last_command_exit_code |-> 0, cancelled |-> FALSE,
      cwd |-> << >>, last_command_cd |-> FALSE,
      git_repository |-> FALSE, git_branch |-> << >> ]

Init ==
    /\ options \in OptionsSet
    /\ sys \in SysSet
    /\ pc = "main_init"
    /\ state = NoState
    /\ sessions = 0
    /\ script = [ text |-> << >>, filename |-> None ]
    /\ exit_code = 0
    /\ prev_exit_code = 0
    /\ readline = NoReadline
    /\ rlHistory = << >>
    /\ histFile = sys.histAtEntry
    /\ histWrites = 0
    /\ submitted = << >>
    /\ execCalls = << >>
    /\ debugCalls = << >>
    /\ head = Ref_main
    /\ rendered = NoPrompt
    /\ result = Running

PromptInit ==
    /\ options \in PromptOptionsSet
    /\ sys \in PromptSysSet
    /\ pc = "main_init"
    /\ state = NoState
    /\ sessions = 0
    /\ script = [ text |-> << >>, filename |-> None ]
    /\ exit_code = 0
    /\ prev_exit_code = 0
    /\ readline = NoReadline
    /\ rlHistory = << >>
    /\ histFile = sys.histAtEntry
    /\ histWrites = 0
    /\ submitted = << >>
    /\ execCalls = << >>
    /\ debugCalls = << >>
    /\ head = Ref_main
    /\ rendered = NoPrompt
    /\ result = Running

----------------------------------------------------------------------------
(* init_state *)

\* main's match (options.file, options.command): the (None, None) arm
PureInteractive == options.file = None /\ options.command = None

\* if let Some(home_dir) = dirs::home_dir() { if !norc && shellrc_file.exists()
ShouldSourceRc(norc) == sys.home # "none" /\ ~norc /\ sys.rcExists

\* init_state up to the execute call that sources ~/.shellrc
InitStateCall(rcpc, nextpc) ==
    /\ state' = NewShellState(sys.env)
    /\ sessions' = sessions + 1
    /\ IF ShouldSourceRc(options.norc)
       THEN /\ execCalls' =
                  Append(execCalls, ExecCall("rc", RcSourceLine, Some(RcPath),
                                   NewShellState(sys.env)))
            /\ pc' = rcpc
       ELSE /\ pc' = nextpc
            /\ UNCHANGED execCalls
    /\ UNCHANGED << options, sys, head, rendered, prev_exit_code, script, exit_code, readline, rlHistory,
                    histFile, histWrites, submitted, debugCalls, result >>

\* variant: a failure to source ~/.shellrc is ignored
InitStateReturn_IgnoresFailure(nextpc) ==
    /\ \E r \in ExecuteResults(state, head) :
         /\ head' = r.head
         /\ prev_exit_code' = IF r.ok THEN r.code ELSE prev_exit_code
         /\ state' = IF r.ok
                     THEN set_last_command_exit_code(r.state, r.code)
                     ELSE r.state
         /\ pc' = nextpc
         /\ UNCHANGED result
    /\ UNCHANGED << options, sys, rendered, sessions, script, exit_code, readline,
                    rlHistory, histFile, histWrites, submitted, execCalls,
                    debugCalls >>

\* init_state from the return of that execute call
InitStateReturn(nextpc) ==
    /\ \E r \in ExecuteResults(state, head) :
         /\ head' = r.head
         /\ IF r.ok
            THEN /\ prev_exit_code' = r.code
                 /\ state' = set_last_command_exit_code(r.state, r.code)
                 /\ pc' = nextpc
                 /\ UNCHANGED result
            ELSE /\ state' = r.state
                 /\ pc' = "done"
                 /\ result' = Failed("Failed to source ~/.shellrc")
                 /\ UNCHANGED prev_exit_code
    /\ UNCHANGED << options, sys, rendered, sessions, script, exit_code, readline,
                    rlHistory, histFile, histWrites, submitted, execCalls,
                    debugCalls >>

----------------------------------------------------------------------------
(* main *)

\* let mut state = init_state(options.norc).await?
MainInitState ==
    /\ pc = "main_init"
    /\ InitStateCall("main_rc", "main_match")

MainRcReturn ==
    /\ pc = "main_rc"
    /\ InitStateReturn("main_match")

\* match (options.file, options.command) up to the script's execute call
MainMatch ==
    /\ pc = "main_match"
    /\ IF PureInteractive
       THEN /\ pc' = "int_entry"
            /\ UNCHANGED << script, execCalls, debugCalls, result >>
       ELSE LET r == get_script_content(options.file, options.command) IN
            IF ~r.ok
            THEN /\ pc' = "done"
                 /\ result' = Failed("Failed to read script file")
                 /\ UNCHANGED << script, execCalls, debugCalls >>
            ELSE /\ script' = [ text |-> r.text, filename |-> r.filename ]
                 /\ IF options.debug
                    THEN /\ debugCalls' = Append(debugCalls, r.text)
                         /\ pc' = "done"
                         /\ result' = Returned
                         /\ UNCHANGED execCalls
                    ELSE /\ execCalls' =
                               Append(execCalls,
                                      ExecCall("script", r.text, r.filename, state))
                         /\ pc' = "main_exec"
                         /\ UNCHANGED << debugCalls, result >>
    /\ UNCHANGED << options, sys, head, rendered, prev_exit_code, state, sessions, exit_code, readline,
                    rlHistory, histFile, histWrites, submitted >>

\* variant: the process exits with the Session's last exit code
ProcessExitStatus_LastCommand(code, st) == st.last_command_exit_code

\* std::process::exit(exit_code)
ProcessExitStatus(code, st) == code

\* let exit_code = execute(..).await?; if options.interact { .. }
MainExecReturn ==
    /\ pc = "main_exec"
    /\ \E r \in ExecuteResults(state, head) :
         /\ head' = r.head
         /\ state' = r.state
         /\ IF ~r.ok
            THEN /\ pc' = "done"
                 /\ result' = Failed("execute")
                 /\ UNCHANGED exit_code
            ELSE /\ exit_code' = r.code
                 /\ IF options.interact
                    THEN /\ pc' = "int_entry"
                         /\ UNCHANGED result
                    ELSE /\ pc' = "done"
                         /\ result' = Exited(ProcessExitStatus(r.code, r.state))
    /\ UNCHANGED << options, sys, rendered, prev_exit_code, sessions, script, readline, rlHistory,
                    histFile, histWrites, submitted, execCalls, debugCalls >>

----------------------------------------------------------------------------
(* interactive *)

\* ctrlc::set_handler(..).expect(..); Editor::with_config(config)?;
\* let mut state = match state { Some(state) => state, None => init_state }
InteractiveEntry ==
    /\ pc = "int_entry"
    /\ \E setup \in { "ok", "handler", "editor" } :
         CASE setup = "handler" ->
                /\ pc' = "done"
                /\ result' = Panicked("Error setting Ctrl-C handler")
           [] setup = "editor" ->
                /\ pc' = "done"
                /\ result' = Failed("Editor::with_config")
           [] OTHER ->
                /\ pc' = IF PureInteractive THEN "int_init" ELSE "int_history"
                /\ UNCHANGED result
    /\ UNCHANGED << options, sys, head, rendered, prev_exit_code, state, sessions, script, exit_code, readline,
                    rlHistory, histFile, histWrites, submitted, execCalls,
                    debugCalls >>

\* None => init_state(norc).await?
InteractiveInitState ==
    /\ pc = "int_init"
    /\ InitStateCall("int_rc", "int_history")

InteractiveRcReturn ==
    /\ pc = "int_rc"
    /\ InitStateReturn("int_history")

\* let home = dirs::home_dir().ok_or(..)?; the load of .shell_history
LoadHistory ==
    /\ pc = "int_history"
    /\ IF sys.home = "none"
       THEN /\ pc' = "done"
            /\ result' = Failed("Couldn't get home directory")
            /\ UNCHANGED rlHistory
       ELSE IF histFile.exists
       THEN \E ok \in BOOLEAN :
              IF ok
              THEN /\ rlHistory' = load_history(histFile.entries)
                   /\ pc' = "loop"
                   /\ UNCHANGED result
              ELSE /\ pc' = "done"
                   /\ result' = Failed("Failed to read the command history")
                   /\ UNCHANGED rlHistory
       ELSE /\ pc' = "loop"
            /\ UNCHANGED << rlHistory, result >>
    /\ UNCHANGED << options, sys, head, rendered, prev_exit_code, state, sessions, script, exit_code, readline,
                    histFile, histWrites, submitted, execCalls, debugCalls >>

\* what rl.readline(&prompt) may return
ReadlineOutcomes ==
    { [ kind |-> k, line |-> << >> ] : k \in { "Interrupted", "Eof", "Err" } }
      \cup { [ kind |-> "Ok", line |-> l ] :
               l \in IF Len(submitted) < MaxLines THEN sys.lines ELSE { } }

\* str::strip_prefix
strip_prefix(str, prefix) ==
    IF Len(str) >= Len(prefix) /\ SubSeq(str, 1, Len(prefix)) = prefix
    THEN Some(SubSeq(str, Len(prefix) + 1, Len(str)))
    ELSE None

\* str::replace(from, to) for single characters
replace(str, from, to) ==
    [ i \in 1..Len(str) |-> IF str[i] = from THEN to ELSE str[i] ]

\* state.update_git_branch(): the repository lookup from the working
\* directory; h is .git/HEAD of the repository
update_git_branch(s, h) ==
    IF s.cwd \in Repositories
    THEN [ s EXCEPT !.git_repository = TRUE, !.git_branch = h ]
    ELSE [ s EXCEPT !.git_repository = FALSE, !.git_branch = << >> ]

\* variant: the branch is looked up at every prompt
RefreshGitBranch_Always(s, h) == update_git_branch(s, h)

\* if !state.last_command_cd() { state.update_git_branch(); }
RefreshGitBranch(s, h) ==
    IF ~s.last_command_cd THEN update_git_branch(s, h) ELSE s

\* hash.len() > 7, hash[0..7]
HashDisplayLen == 7

\* variant: a ref outside refs/heads/ is shown in full
git_branch_label_Untruncated(s) ==
    IF s.git_repository
    THEN << "(" >>
           \o (IF strip_prefix(s.git_branch, RefPrefix) # None
               THEN strip_prefix(s.git_branch, RefPrefix)[1]
               ELSE s.git_branch)
           \o << ")" >>
    ELSE << >>

\* the git_branch local of the prompt block
git_branch_label(s) ==
    IF s.git_repository
    THEN << "(" >>
           \o (IF strip_prefix(s.git_branch, RefPrefix) # None
               THEN strip_prefix(s.git_branch, RefPrefix)[1]
               ELSE IF Len(s.git_branch) > HashDisplayLen
                    THEN SubSeq(s.git_branch, 1, HashDisplayLen)
                           \o << ".", ".", "." >>
                    ELSE s.git_branch)
           \o << ")" >>
    ELSE << >>

\* the display_cwd local of the prompt block
display_cwd(cwd, home_str) ==
    IF strip_prefix(cwd, home_str) # None
    THEN << "~" >> \o replace(strip_prefix(cwd, home_str)[1], "\\", "/")
    ELSE cwd

\* Reading: the top of the loop, up to the return of rl.readline
Reading ==
    /\ pc = "loop"
    /\ IF sys.home = "nonutf8"
       THEN /\ state' = reset_cancellation_token(state)
            /\ pc' = "done"
            /\ result' =
                 Failed("Couldn't convert home directory path to UTF-8 string")
            /\ UNCHANGED << readline, submitted, rendered >>
       ELSE \E r \in ReadlineOutcomes :
              /\ state' =
                   RefreshGitBranch(reset_cancellation_token(state), head)
              /\ rendered' = [ git_branch |-> git_branch_label(state'),
                               display_cwd |-> display_cwd(state.cwd, Home) ]
              /\ readline' = r
              /\ submitted' =
                   IF r.kind = "Ok" THEN Append(submitted, r.line) ELSE submitted
              /\ pc' = "match"
              /\ UNCHANGED result
    /\ UNCHANGED << options, sys, head, prev_exit_code, sessions, script, exit_code,
                    rlHistory, histFile, histWrites, execCalls, debugCalls >>

\* Ok(line) => rl.add_history_entry(..)?; execute(&line, None, &mut state)
MatchOk ==
    /\ pc = "match"
    /\ readline.kind = "Ok"
    /\ \E added \in BOOLEAN :
         IF added
         THEN /\ rlHistory' = add_history_entry(rlHistory, readline.line)
              /\ execCalls' =
                   Append(execCalls, ExecCall("line", readline.line, None, state))
              /\ pc' = "line_exec"
              /\ UNCHANGED result
         ELSE /\ pc' = "done"
              /\ result' = Failed("add_history_entry")
              /\ UNCHANGED << rlHistory, execCalls >>
    /\ UNCHANGED << options, sys, head, rendered, prev_exit_code, state, sessions, script, exit_code, readline,
                    histFile, histWrites, submitted, debugCalls >>

\* variant: a nonzero exit code ends the loop like the exit keyword
AfterDispatch_BreaksOnFailure(line, code) ==
    IF IsExitCommand(line) \/ code # 0 THEN "terminating" ELSE "loop"

\* variant: the exit keyword ends the loop only when its exit code is 0
AfterDispatch_OnlyOnSuccess(line, code) ==
    IF IsExitCommand(line) /\ code = 0 THEN "terminating" ELSE "loop"

\* if line.trim().eq_ignore_ascii_case("exit") { break; }
AfterDispatch(line, code) ==
    IF IsExitCommand(line) THEN "terminating" ELSE "loop"

\* variant: the history is saved before a failed execute is propagated
LineExecReturn_SavesOnFailure ==
    /\ pc = "line_exec"
    /\ \E r \in ExecuteResults(state, head) :
         /\ head' = r.head
         /\ IF r.ok
            THEN /\ prev_exit_code' = r.code
                 /\ state' = set_last_command_exit_code(r.state, r.code)
                 /\ pc' = AfterDispatch(readline.line, r.code)
                 /\ UNCHANGED << result, histFile, histWrites >>
            ELSE /\ state' = r.state
                 /\ pc' = "done"
                 /\ result' = Failed("Failed to execute")
                 /\ histFile' = [ exists |-> TRUE, entries |-> rlHistory ]
                 /\ histWrites' = histWrites + 1
                 /\ UNCHANGED prev_exit_code
    /\ UNCHANGED << options, sys, rendered, sessions, script, exit_code, readline,
                    rlHistory, submitted, execCalls, debugCalls >>

\* Dispatching: the return of execute(&line, ..), then the exit check
LineExecReturn ==
    /\ pc = "line_exec"
    /\ \E r \in ExecuteResults(state, head) :
         /\ head' = r.head
         /\ IF r.ok
            THEN /\ prev_exit_code' = r.code
                 /\ state' = set_last_command_exit_code(r.state, r.code)
                 /\ pc' = AfterDispatch(readline.line, r.code)
                 /\ UNCHANGED result
            ELSE /\ state' = r.state
                 /\ pc' = "done"
                 /\ result' = Failed("Failed to execute")
                 /\ UNCHANGED prev_exit_code
    /\ UNCHANGED << options, sys, rendered, sessions, script, exit_code, readline,
                    rlHistory, histFile, histWrites, submitted, execCalls,
                    debugCalls >>

\* variant: Ctrl-C leaves the loop like Ctrl-D
MatchInterrupted_Breaks ==
    /\ pc = "match"
    /\ readline.kind = "Interrupted"
    /\ pc' = "terminating"
    /\ UNCHANGED << options, sys, head, rendered, prev_exit_code, state, sessions, script, exit_code, readline,
                    rlHistory, histFile, histWrites, submitted, execCalls,
                    debugCalls, result >>

\* Err(ReadlineError::Interrupted) => { println!("CTRL-C"); }
MatchInterrupted ==
    /\ pc = "match"
    /\ readline.kind = "Interrupted"
    /\ pc' = "loop"
    /\ UNCHANGED << options, sys, head, rendered, prev_exit_code, state, sessions, script, exit_code, readline,
                    rlHistory, histFile, histWrites, submitted, execCalls,
                    debugCalls, result >>

\* variant: Ctrl-D returns from interactive without saving the history
MatchEof_ReturnsUnsaved ==
    /\ pc = "match"
    /\ readline.kind = "Eof"
    /\ pc' = "done"
    /\ result' = IF PureInteractive THEN Returned ELSE Exited(exit_code)
    /\ UNCHANGED << options, sys, head, rendered, prev_exit_code, state, sessions, script, exit_code, readline,
                    rlHistory, histFile, histWrites, submitted, execCalls,
                    debugCalls >>

\* Err(ReadlineError::Eof) => { println!("CTRL-D"); break; }
MatchEof ==
    /\ pc = "match"
    /\ readline.kind = "Eof"
    /\ pc' = "terminating"
    /\ UNCHANGED << options, sys, head, rendered, prev_exit_code, state, sessions, script, exit_code, readline,
                    rlHistory, histFile, histWrites, submitted, execCalls,
                    debugCalls, result >>

\* Err(err) => { println!("Error: {:?}", err); break; }
MatchErr ==
    /\ pc = "match"
    /\ readline.kind = "Err"
    /\ pc' = "terminating"
    /\ UNCHANGED << options, sys, head, rendered, prev_exit_code, state, sessions, script, exit_code, readline,
                    rlHistory, histFile, histWrites, submitted, execCalls,
                    debugCalls, result >>

\* rl.save_history(path): the file is replaced by the in-memory history
save_history(h) == [ exists |-> TRUE, entries |-> h ]

\* Terminating: rl.save_history(..)?; Ok(()) and the caller's way out:
\* main returns the Ok in pure interactive mode and calls
\* std::process::exit(exit_code) after a script or command
SaveHistory ==
    /\ pc = "terminating"
    /\ histWrites' = histWrites + 1
    /\ pc' = "done"
    /\ \E ok \in BOOLEAN :
         IF ok
         THEN /\ histFile' = save_history(rlHistory)
              /\ result' = IF PureInteractive
                           THEN Returned
                           ELSE Exited(ProcessExitStatus(exit_code, state))
         ELSE /\ histFile' \in { histFile, save_history(<< >>) }
              /\ result' = Failed("Failed to write the command history")
    /\ UNCHANGED << options, sys, head, rendered, prev_exit_code, state, sessions, script, exit_code, readline,
                    rlHistory, submitted, execCalls, debugCalls >>

----------------------------------------------------------------------------

Next ==
    \/ MainInitState
    \/ MainRcReturn
    \/ MainMatch
    \/ MainExecReturn
    \/ InteractiveEntry
    \/ InteractiveInitState
    \/ InteractiveRcReturn
    \/ LoadHistory
    \/ Reading
    \/ MatchOk
    \/ LineExecReturn
    \/ MatchInterrupted
    \/ MatchEof
    \/ MatchErr
    \/ SaveHistory

Spec == Init /\ [][Next]_vars

PromptSpec == PromptInit /\ [][Next]_vars

----------------------------------------------------------------------------
(* Properties *)

\* the input lines whose trimmed text is "exit" in any letter case
ExitKeywordLines == { L_exit, L_pad_ExIT }

\* the run has left the interactive loop through Terminating with the
\* history saved, and the process has ended without a failure
CleanTermination ==
    pc = "done" /\ histWrites = 1 /\ result.kind \in { "ok", "exit" }

\* C1: a submitted line that is the exit keyword (trimmed, any letter case)
\* is the last line the loop reads: from the moment it is read the loop is
\* never at its top again, whatever the Interpreter returns for it.
C1_ExitKeywordEndsLoop ==
    \A i \in 1..Len(submitted) :
        submitted[i] \in ExitKeywordLines =>
            /\ i = Len(submitted)
            /\ pc \in { "match", "line_exec", "terminating", "done" }

\* C1 witness: the padded, mixed-case keyword was dispatched, the Interpreter
\* returned a nonzero code for it, and the loop is in Terminating.
C1_Witness ==
    /\ pc = "terminating"
    /\ submitted # << >>
    /\ submitted[Len(submitted)] = L_pad_ExIT
    /\ state.last_command_exit_code = 1

\* C2: an Interrupted outcome puts the loop back in Reading with no
\* Interpreter call, no history entry and no history write; an end-of-input
\* outcome puts it in Terminating.
C2_InterruptContinuesEofTerminates ==
    [][ /\ (pc = "match" /\ readline.kind = "Interrupted") =>
              /\ pc' = "loop"
              /\ UNCHANGED << execCalls, rlHistory, histFile, histWrites,
                              state, result >>
        /\ (pc = "match" /\ readline.kind = "Eof") => pc' = "terminating"
      ]_vars

\* C2 witness: after an earlier line, the loop is back in Reading right
\* after an Interrupted outcome.
C2_Witness ==
    /\ pc = "loop"
    /\ readline.kind = "Interrupted"
    /\ submitted # << >>

\* the lines of a submission sequence that the editor's history records
\* after the entries h: not the empty line, not a line that begins with
\* whitespace, not a line equal to the entry just before it
RECURSIVE Recorded(_, _)
Recorded(h, lines) ==
    IF lines = << >> THEN h
    ELSE LET l == Head(lines)
             kept == /\ l # << >>
                     /\ l[1] \notin { " ", "\t" }
                     /\ (h = << >> \/ h[Len(h)] # l)
         IN Recorded(IF kept THEN h \o << l >> ELSE h, Tail(lines))

\* C3 as stated: after a clean termination the history file holds the N
\* entries it had at entry followed by all M submitted lines, in order.
C3_AllSubmittedPersisted ==
    CleanTermination =>
        histFile.entries = sys.histAtEntry.entries \o submitted

\* C3 amended: after a clean termination the history file holds the N
\* entries it had at entry (none when the file was missing) followed, in
\* submission order, by the submitted lines the editor records: every line
\* except the empty ones, those that begin with whitespace and those equal
\* to the entry just before them.
C3_RecordedLinesPersisted ==
    CleanTermination =>
        histFile.entries = Recorded(sys.histAtEntry.entries, submitted)

\* C3 witness: a session that started with one entry on file, took two
\* lines of which the editor recorded one, and terminated cleanly.
C3_Witness ==
    /\ CleanTermination
    /\ Len(sys.histAtEntry.entries) = 1
    /\ Len(submitted) = 2
    /\ Len(histFile.entries) = 2

\* the loop is left by break: the exit keyword after a returned exit code,
\* end-of-input, or another editor failure
LeavesLoop ==
    \/ pc = "match" /\ readline.kind \in { "Eof", "Err" }
    \/ /\ pc = "line_exec"
       /\ readline.line \in ExitKeywordLines
       /\ result' = result

\* C4: the history file is written at most once, and only by the step that
\* leaves Terminating; no step taken in Reading or Dispatching touches it;
\* each of the three ways of leaving the loop enters Terminating, and
\* Terminating writes the file before interactive returns.
C4_HistoryWrittenOnceOnTerminating ==
    [][ /\ (histFile' # histFile \/ histWrites' # histWrites) =>
              (pc = "terminating" /\ histWrites = 0 /\ histWrites' = 1)
        /\ LeavesLoop => (pc' = "terminating" /\ histWrites' = 0)
        /\ pc = "terminating" => (histWrites' = 1 /\ pc' = "done")
        /\ (pc' = "done" /\ result'.kind \in { "ok", "exit" }
              /\ pc \notin { "main_match", "main_exec" }) =>
              (pc = "terminating" /\ histWrites' = 1)
      ]_vars

\* C4 witness: the loop was left through an editor failure after a line
\* had been dispatched, and the file has been written once.
C4_Witness ==
    /\ pc = "done"
    /\ readline.kind = "Err"
    /\ submitted # << >>
    /\ histWrites = 1
    /\ histFile = save_history(rlHistory)

\* the execute calls of one kind: "rc", "script" or "line"
CallsOf(kind) == { i \in 1..Len(execCalls) : execCalls[i].kind = kind }

\* C5: a run started with the debug flag and a file or inline command never
\* calls execute, bootstrap included.
C5_DebugNeverExecutes ==
    (options.debug /\ ~PureInteractive) => execCalls = << >>

\* C6: a run started with a script path that cannot be read never calls
\* execute and ends in the failure of the script read.
C6_UnreadableScriptNeverExecutes ==
    options.file = Some(P_missing) =>
        /\ execCalls = << >>
        /\ pc = "done" => result = Failed("Failed to read script file")

\* C7: in every mode the rc file is sourced at most once, and never when
\* --norc is given or the file does not exist.
C7_RcSourcedAtMostOnce ==
    /\ Cardinality(CallsOf("rc")) <= 1
    /\ (options.norc \/ ~sys.rcExists) => CallsOf("rc") = { }

\* C8: in file/command mode without the debug flag, a run that does not end
\* in a failure ends by process exit with the code the Interpreter returned
\* for the script; with --interact that is after the interactive loop has
\* saved the history, whatever the lines entered in it returned.
C8_ExitsWithScriptCode ==
    (pc = "done" /\ ~PureInteractive /\ ~options.debug
       /\ result.kind \notin { "error", "panic" }) =>
        /\ result = Exited(exit_code)
        /\ Cardinality(CallsOf("script")) = 1
        /\ options.interact => histWrites = 1
        /\ ~options.interact => (histWrites = 0 /\ submitted = << >>)

\* C8 witness: the script returned 1, the loop then ran a line that returned
\* 0 and terminated cleanly, and the process exited with status 1.
C8_Witness ==
    /\ pc = "done"
    /\ options.interact
    /\ submitted # << >>
    /\ exit_code = 1
    /\ state.last_command_exit_code = 0
    /\ result = Exited(1)

\* C9: the script executed is the file's content, with the path (as
\* displayed) as filename, whenever a file is given; it is the command
\* string, with no filename, when only a command is given; with neither,
\* nothing is executed as a script or parsed and main goes on to interactive.
C9_ExactlyOneScriptSource ==
    /\ [](/\ Cardinality(CallsOf("script")) + Len(debugCalls) <= 1
          /\ \A i \in CallsOf("script") :
               IF options.file # None
               THEN /\ execCalls[i].text = << "content of", options.file[1] >>
                    /\ execCalls[i].filename =
                         Some(PathDisplay(options.file[1]))
               ELSE /\ options.command # None
                    /\ execCalls[i].text = options.command[1]
                    /\ execCalls[i].filename = None
          /\ PureInteractive => (CallsOf("script") = { } /\ debugCalls = << >>))
    /\ [][ (pc = "main_match" /\ PureInteractive) => pc' = "int_entry" ]_vars

\* C9 witness: a file and a command were both given and the file's content
\* was executed.
C9_Witness ==
    /\ options.file = Some(P_nonutf8)
    /\ options.command # None
    /\ CallsOf("script") # { }

\* C10: after bootstrap with no rc file sourced, PS1 is the inherited value
\* when the environment sets one, and the default template only when it
\* sets none.
C10_InheritedPS1Wins ==
    (pc = "main_match" /\ execCalls = << >>) =>
        /\ "PS1" \in DOMAIN sys.env =>
              state.env_vars["PS1"] = sys.env["PS1"]
        /\ state.env_vars["PS1"] = default_ps1 => "PS1" \notin DOMAIN sys.env


\* C11: when execute returns an exit code for a dispatched line that is not
\* the exit keyword, the loop goes back to Reading and the run has not
\* failed, whatever the code.
C11_ExitCodeNeverEndsLoop ==
    [][ (/\ pc = "line_exec"
         /\ readline.line \notin ExitKeywordLines
         /\ result' = result) =>
            (pc' = "loop" /\ result' = Running)
      ]_vars

\* C11 witness: a line that is not the exit keyword returned a nonzero exit
\* code and the loop is back in Reading.
C11_Witness ==
    /\ pc = "loop"
    /\ readline = [ kind |-> "Ok", line |-> L_exits ]
    /\ state.last_command_exit_code = 1
    /\ result = Running


\* C12: every return of the line editor finds the token reset, and every
\* execute call made from the loop starts with the token reset: the reset at
\* the top of the iteration lies between the previous execute call and both.
C12_TokenResetEveryIteration ==
    /\ pc \in { "match", "line_exec" } => ~state.cancelled
    /\ \A i \in CallsOf("line") : ~execCalls[i].cancelled

\* C12 witness: the line editor has returned with the token reset in a run
\* whose script had started with the token cancelled.
C12_Witness ==
    /\ pc = "match"
    /\ ~state.cancelled
    /\ \E i \in CallsOf("script") : execCalls[i].cancelled

\* the lines dispatched so far: all submitted lines, but the last one while
\* it is still between the line editor and its execute call
Dispatched ==
    IF pc = "match" /\ readline.kind = "Ok"
    THEN SubSeq(submitted, 1, Len(submitted) - 1)
    ELSE submitted

\* C13: the execute calls of the loop carry the submitted lines, in order,
\* with no filename; back in Reading after a dispatch the Session's last
\* exit code is the code that execute returned; an Interrupted outcome does
\* not change it.
C13_LastExitCodeFollowsDispatch ==
    /\ [](/\ \A i \in CallsOf("line") : execCalls[i].filename = << >>
          /\ Cardinality(CallsOf("line")) <= Len(Dispatched)
          /\ \A k \in 1..Len(execCalls) :
               execCalls[k].kind = "line" =>
                 execCalls[k].text =
                   submitted[Cardinality({ i \in CallsOf("line") : i <= k })]
          /\ (pc = "loop" /\ readline.kind = "Ok") =>
               state.last_command_exit_code = prev_exit_code)
    /\ [][ (pc = "match" /\ readline.kind = "Interrupted") =>
              state'.last_command_exit_code = state.last_command_exit_code
         ]_vars

\* C13 witness: a dispatched line returned 1, and an Interrupted outcome
\* later the last exit code is still 1.
C13_Witness ==
    /\ pc = "loop"
    /\ readline.kind = "Interrupted"
    /\ submitted # << >>
    /\ prev_exit_code = 1
    /\ state.last_command_exit_code = 1

\* C14: when the execute call that sources ~/.shellrc fails, the run ends
\* there with the startup failure: no script or command was run or parsed,
\* no line was read, the history file is as it was; when it returns a
\* code, that code is the Session's last exit code as init_state returns.
C14_RcFailureIsStartupFailure ==
    /\ [](result = Failed("Failed to source ~/.shellrc") =>
            /\ pc = "done"
            /\ CallsOf("script") = { } /\ CallsOf("line") = { }
            /\ debugCalls = << >>
            /\ submitted = << >> /\ readline.kind = "none"
            /\ histWrites = 0 /\ histFile = sys.histAtEntry)
    /\ [][ (pc = "main_rc" \/ pc = "int_rc") =>
             \/ pc' = "done" /\ result' = Failed("Failed to source ~/.shellrc")
             \/ /\ pc' = (IF pc = "main_rc" THEN "main_match" ELSE "int_history")
                /\ result' = Running
                /\ state'.last_command_exit_code = prev_exit_code'
         ]_vars

\* C14 witness: sourcing ~/.shellrc returned 1 and main's init_state has
\* returned a Session whose last exit code is 1.
C14_Witness ==
    /\ pc = "main_match"
    /\ CallsOf("rc") # { }
    /\ state.last_command_exit_code = 1

\* C18: every execute call of a run starts with the token not cancelled.
C18_TokenResetBetweenExecutes ==
    \A i \in 1..Len(execCalls) : ~execCalls[i].cancelled

\* C19: when execute fails for a submitted line, interactive returns that
\* failure at once: the history file is not written and the Session's last
\* exit code is as before the call.
C19_FailedExecuteSkipsTerminating ==
    /\ [](result = Failed("Failed to execute") =>
            /\ pc = "done"
            /\ histWrites = 0 /\ histFile = sys.histAtEntry)
    /\ [][ (pc = "line_exec" /\ result' # result) =>
             /\ pc' = "done"
             /\ result' = Failed("Failed to execute")
             /\ state'.last_command_exit_code = state.last_command_exit_code
             /\ UNCHANGED << histFile, histWrites, rlHistory >>
         ]_vars

\* C19 witness: execute failed for the second line of a session; both lines
\* are in the editor's history and none is on file.
C19_Witness ==
    /\ result = Failed("Failed to execute")
    /\ submitted = << L_ls, L_exits >>
    /\ rlHistory = << L_ls, L_exits >>
    /\ histFile.entries = << >>

\* C20: with --interact after a file or command, the loop runs on the one
\* Session of the run (one bootstrap, the rc file sourced at most once) and
\* at its first prompt the Session's last exit code is the script's code.
C20_LoopSeesScriptExitCode ==
    (~PureInteractive /\ pc = "match" /\ CallsOf("line") = { }) =>
        /\ sessions = 1
        /\ Cardinality(CallsOf("rc")) <= 1
        /\ state.last_command_exit_code = exit_code


\* the git-branch cache of a Session
GitCache(s) == << s.git_repository, s.git_branch >>

\* C15: a prompt render looks the branch up anew exactly when the last
\* command was not a directory change; after a directory change the render
\* leaves the cache as it was and the prompt shows the branch cached before.
C15_RefreshUnlessDirectoryChange ==
    [][ (pc = "loop" /\ pc' = "match") =>
          /\ ~state.last_command_cd =>
               GitCache(state') = GitCache(update_git_branch(state, head))
          /\ state.last_command_cd =>
               /\ GitCache(state') = GitCache(state)
               /\ rendered'.git_branch = git_branch_label(state)
      ]_vars

\* C15 witness: the prompt built right after a cd out of the repository
\* still shows the branch, and HEAD has moved on since it was cached.
C15_Witness ==
    /\ pc = "match"
    /\ state.last_command_cd
    /\ state.cwd = D_tmp
    /\ state.git_branch = Ref_main
    /\ head = Ref_hash
    /\ rendered.git_branch = << "(", "m", "a", "i", "n", ")" >>

\* the name after "ref: refs/heads/", when the ref has that form
BranchName(ref) == SubSeq(ref, Len(RefPrefix) + 1, Len(ref))
IsBranchRef(ref) ==
    Len(ref) >= Len(RefPrefix) /\ SubSeq(ref, 1, Len(RefPrefix)) = RefPrefix

\* C16: the label of a built prompt is empty without a repository,
\* "(<name>)" for "ref: refs/heads/<name>", and for any other ref h it is
\* "(h)" when h has at most 7 characters and "(" + h[0:7] + "...)" when
\* it has more; "ref: refs/heads/main" gives "(main)".
C16_BranchLabel ==
    pc = "match" =>
      /\ ~state.git_repository => rendered.git_branch = << >>
      /\ state.git_repository =>
           LET h == state.git_branch IN
           /\ IsBranchRef(h) =>
                rendered.git_branch = << "(" >> \o BranchName(h) \o << ")" >>
           /\ (~IsBranchRef(h) /\ Len(h) <= 7) =>
                rendered.git_branch = << "(" >> \o h \o << ")" >>
           /\ (~IsBranchRef(h) /\ Len(h) > 7) =>
                rendered.git_branch =
                  << "(" >> \o SubSeq(h, 1, 7) \o << ".", ".", ".", ")" >>
           /\ h = Ref_main =>
                rendered.git_branch = << "(", "m", "a", "i", "n", ")" >>

\* C16 witness: a prompt built on a detached commit of 40 digits shows its
\* first seven digits and "...".
C16_Witness ==
    /\ pc = "match"
    /\ state.git_repository
    /\ state.git_branch = Ref_hash
    /\ Len(Ref_hash) = 40
    /\ rendered.git_branch =
         << "(", "7", "e", "5", "c", "3", "a", "1", ".", ".", ".", ")" >>

\* the working directory is the home directory or lies below it
UnderHome(cwd) ==
    \/ cwd = Home
    \/ /\ Len(cwd) > Len(Home)
       /\ SubSeq(cwd, 1, Len(Home)) = Home
       /\ cwd[Len(Home) + 1] \in { "/", "\\" }

\* C17: display_cwd of a built prompt is "~" and the rest of the path with
\* "\" turned into "/" when the working directory is under home, and the
\* working directory verbatim when it is not, a sibling of home whose name
\* continues home's name included.
C17_DisplayCwd ==
    pc = "match" =>
      rendered.display_cwd =
        IF UnderHome(state.cwd)
        THEN << "~" >> \o replace(SubSeq(state.cwd, Len(Home) + 1,
                                         Len(state.cwd)), "\\", "/")
        ELSE state.cwd

====
